---- MODULE Spec2Model ----
(***************************************************************************)
(* Model of the IPython executor                                           *)
(*   src/packages/sandbox-container/src/runtime/executors/python/          *)
(*   ipython_executor.py                                                   *)
(* The module start-up (import, shell creation, ready line), the           *)
(* request/response loop main(), execute_code() with its representation    *)
(* selection and capture_matplotlib_figures().                             *)
(*                                                                         *)
(* The interpreter itself (shell.run_cell, shell.display_formatter.format) *)
(* and json.loads / json.dumps are library code; they are modelled by      *)
(* what they do on a small language of request lines and code cells.       *)
(* The output stream is assumed to accept every write.                     *)
(***************************************************************************)
EXTENDS Integers, Sequences, FiniteSets, TLC

(* ---------------------------------------------------------------------- *)
(* Bounds                                                                  *)
(* ---------------------------------------------------------------------- *)
\* number of lines the loop reads before the input stream is exhausted
MaxRequests == 3

(* ---------------------------------------------------------------------- *)
(* Python / JSON values                                                    *)
(* ---------------------------------------------------------------------- *)
\* Python None, JSON null
None == [none |-> TRUE]

\* the empty mapping {}
EmptyMap == [k \in {} |-> None]

\* data that json.dumps rejects with TypeError (raw bytes, arbitrary objects)
NotJSON == {"<bytes>", "<object>"}

\* json.dumps(v) of an atom succeeds unless v is not JSON serializable
Serializable(v) == v \notin NotJSON

\* the text json.dumps produces for the structured values of the model
DumpsText(v) ==
  CASE v = "dict:a=1" -> "{\"a\": 1}"
    [] v = "dict:1=2" -> "{\"1\": 2}"
    [] v = "list:1,2" -> "[1, 2]"
    [] v = "str:s"    -> "\"s\""
    [] OTHER          -> "<unserializable>"

(* ---------------------------------------------------------------------- *)
(* MIME vocabulary of execute_code                                         *)
(* ---------------------------------------------------------------------- *)
\* the kinds execute_code looks for, with the block tag of each, in the
\* order of its if-statements
VocabularyHtmlFirst ==
  << [mime |-> "text/html",              tag |-> "html"],
     [mime |-> "image/png",              tag |-> "image"],
     [mime |-> "image/jpeg",             tag |-> "jpeg"],
     [mime |-> "image/svg+xml",          tag |-> "svg"],
     [mime |-> "application/json",       tag |-> "json"],
     [mime |-> "text/latex",             tag |-> "latex"],
     [mime |-> "text/markdown",          tag |-> "markdown"],
     [mime |-> "application/javascript", tag |-> "javascript"] >>
Vocabulary ==
  << [mime |-> "image/png",              tag |-> "image"],
     [mime |-> "image/jpeg",             tag |-> "jpeg"],
     [mime |-> "image/svg+xml",          tag |-> "svg"],
     [mime |-> "text/html",              tag |-> "html"],
     [mime |-> "application/json",       tag |-> "json"],
     [mime |-> "text/latex",             tag |-> "latex"],
     [mime |-> "text/markdown",          tag |-> "markdown"],
     [mime |-> "application/javascript", tag |-> "javascript"] >>

\* metadata.get(mime, {})
MetaGet(metadata, mime) ==
  IF mime \in DOMAIN metadata THEN metadata[mime] ELSE EmptyMap

\* one output block
Block(tag, data, md) == [type |-> tag, data |-> data, metadata |-> md]

\* a step of the selection that did not raise / that raised an exception
Built(outs) == [outputs |-> outs, raised |-> None]
Raised(outs, exc) == [outputs |-> outs, raised |-> [type |-> exc]]

\* the data of a block: json.dumps(...) for application/json, the raw data
\* for every other kind
BlockData(tag, v) == IF tag = "json" THEN DumpsText(v) ELSE v

\* json.dumps raises TypeError on a value that is not serializable
BlockRaises(tag, v) == tag = "json" /\ ~Serializable(v)

(* ---------------------------------------------------------------------- *)
(* execute_code, lines 92-161: one captured display payload                *)
(* ---------------------------------------------------------------------- *)
\* 'text/plain' in data and len(data) == 1
DisplayTextRule(data) == "text/plain" \in DOMAIN data /\ Cardinality(DOMAIN data) = 1

RECURSIVE SelectDisplay(_, _, _, _)
\* the if-statements of lines 99-161, from the i-th on, appending to outs
SelectDisplay(outs, data, metadata, i) ==
  IF i > Len(Vocabulary)
  THEN IF DisplayTextRule(data)
       THEN Built(Append(outs, Block("text", data["text/plain"],
                                     MetaGet(metadata, "text/plain"))))
       ELSE Built(outs)
  ELSE LET k == Vocabulary[i] IN
       IF k.mime \notin DOMAIN data
       THEN SelectDisplay(outs, data, metadata, i + 1)
       ELSE IF BlockRaises(k.tag, data[k.mime])
            THEN Raised(outs, "TypeError")
            ELSE SelectDisplay(
                   Append(outs, Block(k.tag, BlockData(k.tag, data[k.mime]),
                                      MetaGet(metadata, k.mime))),
                   data, metadata, i + 1)

RECURSIVE ProcessDisplays(_, _, _)
\* for output in captured.outputs, from the j-th payload on
ProcessDisplays(outs, payloads, j) ==
  IF j > Len(payloads)
  THEN Built(outs)
  ELSE LET r == SelectDisplay(outs, payloads[j].data, payloads[j].metadata, 1) IN
       IF r.raised # None THEN r
       ELSE ProcessDisplays(r.outputs, payloads, j + 1)

(* ---------------------------------------------------------------------- *)
(* execute_code, lines 175-269: the value of the last expression           *)
(* ---------------------------------------------------------------------- *)
\* any(o['type'] == 'html' for o in result.get('outputs', []))
HasHtml(outs) == \E n \in 1..Len(outs) : outs[n].type = "html"

\* lines 261-269
ResultTextRule(outs, formatted, output_added) ==
  "text/plain" \in DOMAIN formatted /\ (~output_added \/ HasHtml(outs))

\* html is the one kind that does not set output_added (line 222)
SetsOutputAdded(tag) == tag # "html"

RECURSIVE SelectResult(_, _, _, _, _)
\* the if-statements of lines 191-269, from the i-th on
SelectResult(outs, formatted, metadata, i, output_added) ==
  IF i > Len(Vocabulary)
  THEN IF ResultTextRule(outs, formatted, output_added)
       THEN Built(Append(outs, Block("text", formatted["text/plain"],
                                     MetaGet(metadata, "text/plain"))))
       ELSE Built(outs)
  ELSE LET k == Vocabulary[i] IN
       IF k.mime \notin DOMAIN formatted
       THEN SelectResult(outs, formatted, metadata, i + 1, output_added)
       ELSE IF BlockRaises(k.tag, formatted[k.mime])
            THEN Raised(outs, "TypeError")
            ELSE SelectResult(
                   Append(outs, Block(k.tag, BlockData(k.tag, formatted[k.mime]),
                                      MetaGet(metadata, k.mime))),
                   formatted, metadata, i + 1,
                   output_added \/ SetsOutputAdded(k.tag))

(* ---------------------------------------------------------------------- *)
(* capture_matplotlib_figures, lines 38-61                                 *)
(* ---------------------------------------------------------------------- *)
\* fig.savefig raises for a figure that cannot be rendered
SavefigRaises(fig) == fig = "bad"

\* base64 text of the PNG of a figure
FigureData(fig) == "b64:figure"

RECURSIVE SaveFigures(_, _, _)
\* the for loop of lines 47-56 from the n-th figure on; closed tells whether
\* plt.close('all') of line 58 was reached
SaveFigures(figures, registry, n) ==
  IF n > Len(registry)
  THEN [figures |-> figures, closed |-> TRUE]
  ELSE IF SavefigRaises(registry[n])
       THEN [figures |-> figures, closed |-> FALSE]
       ELSE SaveFigures(Append(figures, FigureData(registry[n])), registry, n + 1)

\* the figures returned and the registry left behind; pyplot is whether
\* 'matplotlib.pyplot' is in sys.modules
capture_matplotlib_figures(pyplot, registry) ==
  IF ~pyplot
  THEN [figures |-> <<>>, registry |-> registry]
  ELSE LET r == SaveFigures(<<>>, registry, 1) IN
       [figures |-> r.figures,
        registry |-> IF r.closed THEN <<>> ELSE registry]

\* lines 166-171: one image block per captured figure
FigureBlocksNone(figures) == <<>>
FigureBlocks(figures) ==
  [n \in 1..Len(figures) |-> Block("image", figures[n], EmptyMap)]

(* ---------------------------------------------------------------------- *)
(* The session: shell.run_cell and shell.display_formatter.format          *)
(* ---------------------------------------------------------------------- *)
\* the name x is not bound in the session
Unbound == [py |-> "unbound"]

\* a Python value: its type, its content, and what the display formatter
\* renders it to
Value(py, v, formats, metadata) ==
  [py |-> py, v |-> v, formats |-> formats, metadata |-> metadata]

\* an int: rendered as plain text only
IntValue(v) == Value("int", v, ("text/plain" :> v), EmptyMap)

\* shell.display_formatter.format(value) -> (formatted_dict, metadata)
Format(value) == [data |-> value.formats, metadata |-> value.metadata]

\* statements of a cell
Assign(value) == [op |-> "assign", arg |-> value]
PrintOut(t)   == [op |-> "print", arg |-> t]
PrintErr(t)   == [op |-> "eprint", arg |-> t]
Display(data, metadata) == [op |-> "display", arg |-> [data |-> data, metadata |-> metadata]]
Raise(exc)    == [op |-> "raise", arg |-> exc]
Figure(kind)  == [op |-> "figure", arg |-> kind]
ExprX         == [op |-> "name", arg |-> "x"]
Expr(value)   == [op |-> "expr", arg |-> value]

\* the state of one run_cell call: the session (ns, pyplot, figs), what
\* capture_output has captured (stdout, stderr, outputs) and the
\* ExecutionResult (error_in_exec, result)
CellStart(ns, pyplot, figs) ==
  [ns |-> ns, pyplot |-> pyplot, figs |-> figs,
   stdout |-> <<>>, stderr |-> <<>>, outputs |-> <<>>,
   error_in_exec |-> None, result |-> None]

\* one statement; last tells whether it is the last statement of the cell
\* (ast_node_interactivity = 'last_expr', line 29)
ExecStmt(c, stmt, last) ==
  CASE stmt.op = "assign"  -> [c EXCEPT !.ns = stmt.arg]
    [] stmt.op = "print"   -> [c EXCEPT !.stdout = Append(@, stmt.arg)]
    [] stmt.op = "eprint"  -> [c EXCEPT !.stderr = Append(@, stmt.arg)]
    [] stmt.op = "display" -> [c EXCEPT !.outputs = Append(@, stmt.arg)]
    [] stmt.op = "raise"   -> [c EXCEPT !.error_in_exec = [type |-> stmt.arg]]
    [] stmt.op = "figure"  -> [c EXCEPT !.pyplot = TRUE, !.figs = Append(@, stmt.arg)]
    [] stmt.op = "name"    -> IF c.ns = Unbound
                              THEN [c EXCEPT !.error_in_exec = [type |-> "NameError"]]
                              ELSE IF last THEN [c EXCEPT !.result = c.ns] ELSE c
    [] stmt.op = "expr"    -> IF last THEN [c EXCEPT !.result = stmt.arg] ELSE c

RECURSIVE ExecStmts(_, _, _)
\* the statements of the cell from the n-th on; execution stops at the
\* first statement that raises
ExecStmts(c, stmts, n) ==
  IF n > Len(stmts) \/ c.error_in_exec # None
  THEN c
  ELSE ExecStmts(ExecStmt(c, stmts[n], n = Len(stmts)), stmts, n + 1)

\* shell.run_cell(code, store_history=False, silent=False) under
\* capture_output(), lines 74-76
run_cell(code, ns, pyplot, figs) == ExecStmts(CellStart(ns, pyplot, figs), code, 1)

(* ---------------------------------------------------------------------- *)
(* execute_code, lines 63-279                                              *)
(* ---------------------------------------------------------------------- *)
\* variant of ExecError: the type of the error is the name of the base class
ExecErrorGeneric(exc) ==
  [type |-> "Exception", message |-> "str(error)", traceback |-> "format_tb"]

\* lines 85-89: the error of an exception raised by the executed code
ExecError(exc) ==
  [type |-> exc.type, message |-> "str(error)", traceback |-> "format_tb"]

\* lines 273-277: the error of an exception caught by execute_code itself
CaughtError(exc) ==
  [type |-> exc.type, message |-> "str(e)", traceback |-> "format_exc"]

\* lines 82-89
ErrorInExec(cell) ==
  IF cell.error_in_exec # None THEN ExecError(cell.error_in_exec) ELSE None

\* isinstance(exec_result.result, (dict, list))
IsDictOrListNever(value) == FALSE
IsDictOrList(value) == value.py \in {"dict", "list"}

\* lines 175-269: the blocks of the last expression's value, appended to outs
ProcessResult(outs, value) ==
  IF value = None
  THEN Built(outs)
  ELSE IF IsDictOrList(value)
       THEN IF Serializable(value.v)
            THEN Built(Append(outs, Block("json", DumpsText(value.v), EmptyMap)))
            ELSE Raised(outs, "TypeError")
       ELSE LET f == Format(value) IN
            SelectResult(outs, f.data, f.metadata, 1, FALSE)

\* variant of OnException: the except clause starts from a fresh result
OnExceptionDiscard(result, exc) ==
  [stdout |-> <<>>, stderr |-> <<>>, outputs |-> <<>>, error |-> CaughtError(exc)]

\* the except clause of lines 271-277: only result['error'] is assigned
OnException(result, exc) == [result EXCEPT !.error = CaughtError(exc)]

\* the result dict and the session after execute_code(code)
execute_code(code, ns, pyplot, figs) ==
  LET cell == run_cell(code, ns, pyplot, figs)
      r1   == [stdout |-> cell.stdout, stderr |-> cell.stderr,
               error |-> ErrorInExec(cell), outputs |-> <<>>]
      d    == ProcessDisplays(<<>>, cell.outputs, 1)
      cap  == capture_matplotlib_figures(cell.pyplot, cell.figs)
      o2   == d.outputs \o FigureBlocks(cap.figures)
      t    == ProcessResult(o2, cell.result)
  IN  IF d.raised # None
      THEN [result |-> OnException([r1 EXCEPT !.outputs = d.outputs], d.raised),
            ns |-> cell.ns, pyplot |-> cell.pyplot, figs |-> cell.figs]
      ELSE IF t.raised # None
      THEN [result |-> OnException([r1 EXCEPT !.outputs = t.outputs], t.raised),
            ns |-> cell.ns, pyplot |-> cell.pyplot, figs |-> cap.registry]
      ELSE [result |-> [r1 EXCEPT !.outputs = t.outputs],
            ns |-> cell.ns, pyplot |-> cell.pyplot, figs |-> cap.registry]

(* ---------------------------------------------------------------------- *)
(* Request lines                                                           *)
(* ---------------------------------------------------------------------- *)
\* a line of the input stream: its text and whether white space surrounds it
Line(pad, text) == [pad |-> pad, text |-> text]

\* the texts of the model: the empty text, text that is not JSON, a JSON
\* number, and a JSON object with the given members
EmptyText    == [form |-> "empty",   obj |-> EmptyMap]
GarbageText  == [form |-> "garbage", obj |-> EmptyMap]
ScalarText   == [form |-> "scalar",  obj |-> EmptyMap]
ObjectText(obj) == [form |-> "object", obj |-> obj]

\* request objects with and without the two members
Req(code, id) == ObjectText([code |-> code, executionId |-> id])
ReqNoId(code) == ObjectText([code |-> code])
ReqEmpty      == ObjectText(EmptyMap)

\* line.strip()
Strip(l) == l.text

\* json.loads(text): ok is FALSE when it raises JSONDecodeError
Loads(text) ==
  CASE text.form = "object" -> [ok |-> TRUE,  py |-> "dict", dict |-> text.obj]
    [] text.form = "scalar" -> [ok |-> TRUE,  py |-> "int",  dict |-> EmptyMap]
    [] OTHER                -> [ok |-> FALSE, py |-> "none", dict |-> EmptyMap]

\* request.get(key, default)
Get(request, key, default) ==
  IF key \in DOMAIN request.dict THEN request.dict[key] ELSE default

\* request.get raises AttributeError on a value that is not a dict
GetRaises(request) == request.py # "dict"

\* json.dumps(result) of line 301 raises TypeError when a block carries data
\* that is not JSON serializable
DumpsRaises(result) ==
  \E n \in 1..Len(result.outputs) : ~Serializable(result.outputs[n].data)

(* ---------------------------------------------------------------------- *)
(* Lines written to the output stream                                      *)
(* ---------------------------------------------------------------------- *)
\* lines 17-20
ImportFailedLine ==
  [error |-> [str |-> "IPython import failed"], python_path |-> "sys.path"]

\* line 36
ReadyLine == [status |-> "ready", version |-> "2.0.0"]

\* variant of ProtocolErrorResponse: the handler echoes an executionId key
ProtocolErrorResponseWithId ==
  [error |-> [type |-> "ProtocolError", message |-> "Invalid JSON"],
   status |-> "error", executionId |-> None]

\* lines 305-311
ProtocolErrorResponse ==
  [error |-> [type |-> "ProtocolError", message |-> "Invalid JSON"],
   status |-> "error"]

\* lines 319-326
InternalErrorResponse ==
  [error |-> [type |-> "InternalError", message |-> "Unexpected error",
              traceback |-> "format_exc"],
   status |-> "error"]

\* variant of EchoId: the executionId of the request is not looked up
EchoIdDropped(request) == None

\* line 297: request.get('executionId')
EchoId(request) == Get(request, "executionId", None)

\* variant of Success: success is taken from the error stream being empty
SuccessOfStderr(result) == result.stderr = <<>>

\* line 298: result['error'] is None
Success(result) == result.error = None

\* lines 297-298: the result with executionId and success attached
Attach(result, request) ==
  [stdout      |-> result.stdout,
   stderr      |-> result.stderr,
   error       |-> result.error,
   outputs     |-> result.outputs,
   executionId |-> EchoId(request),
   success     |-> Success(result)]

\* request.get('code', '')
CodeOf(request) == Get(request, "code", <<>>)

\* the body of the try statement of main() after a line was read, lines
\* 290-301: the exception it ends with ("none" when the response was
\* printed), the response, the cells handed to run_cell and the session
\* it leaves
TryBody(l, ns0, pyplot0, figs0) ==
  LET request == Loads(Strip(l))
      e == execute_code(CodeOf(request), ns0, pyplot0, figs0)
  IN  IF ~request.ok
      THEN [exc |-> "JSONDecodeError", response |-> EmptyMap, ran |-> <<>>,
            ns |-> ns0, pyplot |-> pyplot0, figs |-> figs0]
      ELSE IF GetRaises(request)
      THEN [exc |-> "AttributeError", response |-> EmptyMap, ran |-> <<>>,
            ns |-> ns0, pyplot |-> pyplot0, figs |-> figs0]
      ELSE IF DumpsRaises(e.result)
      THEN [exc |-> "TypeError", response |-> EmptyMap, ran |-> <<CodeOf(request)>>,
            ns |-> e.ns, pyplot |-> e.pyplot, figs |-> e.figs]
      ELSE [exc |-> "none", response |-> Attach(e.result, request),
            ran |-> <<CodeOf(request)>>,
            ns |-> e.ns, pyplot |-> e.pyplot, figs |-> e.figs]

(* ---------------------------------------------------------------------- *)
(* The request lines and cells the model draws from                        *)
(* ---------------------------------------------------------------------- *)
Id1 == [id |-> "e1"]

\* display payloads (data by MIME type) and rendered values
PlainOnly  == ("text/plain" :> "t")
HtmlPlain  == ("text/html" :> "<h>" @@ "text/plain" :> "t")
PngPlain   == ("image/png" :> "b64" @@ "text/plain" :> "t")
BadJson    == ("application/json" :> "<object>" @@ "text/plain" :> "t")
BytesPng   == ("image/png" :> "<bytes>")
Unknown    == ("application/pdf" :> "pdf" @@ "text/plain" :> "t")
AllKinds   == ("image/png" :> "b64" @@ "image/jpeg" :> "j64" @@
               "image/svg+xml" :> "<svg>" @@ "text/html" :> "<h>" @@
               "application/json" :> "dict:a=1" @@ "text/latex" :> "$l$" @@
               "text/markdown" :> "# m" @@ "application/javascript" :> "js()" @@
               "text/plain" :> "t" @@ "application/pdf" :> "pdf")
PngMeta    == ("image/png" :> [width |-> 1])

DictGood   == Value("dict", "dict:a=1", EmptyMap, EmptyMap)
DictBad    == Value("dict", "<object>", EmptyMap, EmptyMap)
DictIntKey == Value("dict", "dict:1=2", EmptyMap, EmptyMap)
RichPng    == Value("obj", "img", PngPlain, PngMeta)
RichHtml   == Value("obj", "df", HtmlPlain, EmptyMap)
RichAll    == Value("obj", "all", AllKinds, EmptyMap)

\* the cells sent without executionId
Cells ==
  { << Assign(IntValue("1")) >>,
    << ExprX >>,
    << Figure("ok"), Figure("bad"), Raise("TypeError") >>,
    << Figure("ok"), Display(BadJson, EmptyMap) >>,
    << Display(HtmlPlain, EmptyMap), Figure("ok"), Expr(RichPng) >>,
    << Expr(DictGood) >>,
    << PrintOut("a"), Display(PlainOnly, EmptyMap), Expr(DictBad) >>,
    << Expr(RichPng) >>,
    << Expr(RichHtml) >>,
    << Expr(RichAll) >>,
    << Display(AllKinds, PngMeta), Display(Unknown, EmptyMap), Expr(DictIntKey) >> }

\* the cells sent with executionId
CellsWithId ==
  { << Assign(IntValue("2")), PrintOut("a"), PrintErr("e"),
       Display(PlainOnly, EmptyMap), Raise("ZeroDivisionError") >>,
    << PrintOut("a"), Display(HtmlPlain, EmptyMap), Display(BadJson, EmptyMap),
       Display(PlainOnly, EmptyMap), Raise("ValueError") >>,
    << PrintOut("a"), Display(PlainOnly, EmptyMap), Display(BytesPng, EmptyMap) >> }

\* the lines the input stream can deliver
Lines ==
  { Line(TRUE, EmptyText), Line(FALSE, GarbageText), Line(FALSE, ScalarText),
    Line(TRUE, ReqEmpty) }
  \cup { Line(FALSE, ReqNoId(code)) : code \in Cells }
  \cup { Line(FALSE, Req(code, Id1)) : code \in CellsWithId }

(* ---------------------------------------------------------------------- *)
(* State                                                                   *)
(* ---------------------------------------------------------------------- *)
VARIABLES
  pc,          \* where the process is: "import", "shell", "ready" (module
               \* start-up), "AwaitingLine", "Processing" (main), "Terminated"
               \* (main returned), "Failed" (start-up failed)
  out,         \* the lines written to the output stream
  inp,         \* the lines read from the input stream
  line,        \* the line being processed
  ns,          \* the session: the binding of the name x
  pyplot,      \* the session: 'matplotlib.pyplot' in sys.modules
  figs,        \* the session: the open figures of pyplot
  cells,       \* the cells handed to shell.run_cell so far
  eof,         \* readline has returned '' (end of input)
  sigint,      \* KeyboardInterrupt was raised in main
  exitStatus   \* the exit status of the process, -1 while it runs

vars == << pc, out, inp, line, ns, pyplot, figs, cells, eof, sigint, exitStatus >>

session == << ns, pyplot, figs >>

Init ==
  /\ pc = "import"
  /\ out = <<>>
  /\ inp = <<>>
  /\ line = Line(FALSE, EmptyText)
  /\ ns = Unbound
  /\ pyplot = FALSE
  /\ figs = <<>>
  /\ cells = <<>>
  /\ eof = FALSE
  /\ sigint = FALSE
  /\ exitStatus = -1

(* ---------------------------------------------------------------------- *)
(* Module start-up, lines 13-36                                            *)
(* ---------------------------------------------------------------------- *)
\* lines 14-15: the imports succeed
ImportOk ==
  /\ pc = "import"
  /\ pc' = "shell"
  /\ UNCHANGED << out, inp, line, ns, pyplot, figs, cells, eof, sigint, exitStatus >>

\* lines 16-21: ImportError
ImportFailed ==
  /\ pc = "import"
  /\ out' = Append(out, ImportFailedLine)
  /\ pc' = "Failed"
  /\ exitStatus' = 1
  /\ UNCHANGED << inp, line, ns, pyplot, figs, cells, eof, sigint >>

\* lines 24-33: the shell instance is created and configured
CreateShell ==
  /\ pc = "shell"
  /\ pc' = "ready"
  /\ ns' = Unbound
  /\ UNCHANGED << out, inp, line, pyplot, figs, cells, eof, sigint, exitStatus >>

\* line 24 raises: no handler encloses it, the interpreter prints the
\* traceback to the error stream and exits with status 1
CreateShellFailed ==
  /\ pc = "shell"
  /\ pc' = "Failed"
  /\ exitStatus' = 1
  /\ UNCHANGED << out, inp, line, ns, pyplot, figs, cells, eof, sigint >>

\* variant of EmitReady: main() is entered without the ready line
EmitReadyUnwritten ==
  /\ pc = "ready"
  /\ pc' = "AwaitingLine"
  /\ UNCHANGED << out, inp, line, ns, pyplot, figs, cells, eof, sigint, exitStatus >>

\* line 36, then main() is entered (line 331)
EmitReady ==
  /\ pc = "ready"
  /\ out' = Append(out, ReadyLine)
  /\ pc' = "AwaitingLine"
  /\ UNCHANGED << inp, line, ns, pyplot, figs, cells, eof, sigint, exitStatus >>

(* ---------------------------------------------------------------------- *)
(* main(), lines 281-327                                                   *)
(* ---------------------------------------------------------------------- *)
\* line 286: a line is read
ReadLine ==
  /\ pc = "AwaitingLine"
  /\ Len(inp) < MaxRequests
  /\ \E l \in Lines :
       /\ line' = l
       /\ inp' = Append(inp, l)
  /\ pc' = "Processing"
  /\ UNCHANGED << out, ns, pyplot, figs, cells, eof, sigint, exitStatus >>

\* variant of EndOfInput: the empty line is skipped and the loop goes on
EndOfInputIgnored ==
  /\ pc = "AwaitingLine"
  /\ ~eof
  /\ eof' = TRUE
  /\ UNCHANGED << pc, out, inp, line, ns, pyplot, figs, cells, sigint, exitStatus >>

\* lines 286-288: readline returns '' at end of input, main returns
EndOfInput ==
  /\ pc = "AwaitingLine"
  /\ pc' = "Terminated"
  /\ eof' = TRUE
  /\ exitStatus' = 0
  /\ UNCHANGED << out, inp, line, ns, pyplot, figs, cells, sigint >>

\* lines 314-315: KeyboardInterrupt inside the try statement
Interrupt ==
  /\ pc \in {"AwaitingLine", "Processing"}
  /\ pc' = "Terminated"
  /\ sigint' = TRUE
  /\ exitStatus' = 0
  /\ UNCHANGED << out, inp, line, ns, pyplot, figs, cells, eof >>

\* variant of Processed: a fresh session after a request that raised
ProcessedReset(t) ==
  /\ ns' = IF t.exc = "none" THEN t.ns ELSE Unbound
  /\ pyplot' = t.pyplot
  /\ figs' = t.figs
  /\ cells' = cells \o t.ran
  /\ pc' = "AwaitingLine"
  /\ UNCHANGED << inp, line, eof, sigint, exitStatus >>

\* what every way out of the try body does to the session
Processed(t) ==
  /\ ns' = t.ns
  /\ pyplot' = t.pyplot
  /\ figs' = t.figs
  /\ cells' = cells \o t.ran
  /\ pc' = "AwaitingLine"
  /\ UNCHANGED << inp, line, eof, sigint, exitStatus >>

\* variant of Respond: the response is printed twice
RespondTwice ==
  /\ pc = "Processing"
  /\ LET t == TryBody(line, ns, pyplot, figs) IN
       /\ t.exc = "none"
       /\ out' = Append(Append(out, t.response), t.response)
       /\ Processed(t)

\* lines 290-301: the request is executed and its response printed
Respond ==
  /\ pc = "Processing"
  /\ LET t == TryBody(line, ns, pyplot, figs) IN
       /\ t.exc = "none"
       /\ out' = Append(out, t.response)
       /\ Processed(t)

\* lines 303-312: except json.JSONDecodeError
HandleJSONDecodeError ==
  /\ pc = "Processing"
  /\ LET t == TryBody(line, ns, pyplot, figs) IN
       /\ t.exc = "JSONDecodeError"
       /\ out' = Append(out, ProtocolErrorResponse)
       /\ Processed(t)

\* variant of HandleException: the error is printed and main returns
HandleExceptionFatal ==
  /\ pc = "Processing"
  /\ LET t == TryBody(line, ns, pyplot, figs) IN
       /\ t.exc \notin {"none", "JSONDecodeError"}
       /\ out' = Append(out, InternalErrorResponse)
       /\ ns' = t.ns
       /\ pyplot' = t.pyplot
       /\ figs' = t.figs
       /\ cells' = cells \o t.ran
       /\ pc' = "Terminated"
       /\ UNCHANGED << inp, line, eof, sigint, exitStatus >>

\* lines 317-327: except Exception
HandleException ==
  /\ pc = "Processing"
  /\ LET t == TryBody(line, ns, pyplot, figs) IN
       /\ t.exc \notin {"none", "JSONDecodeError"}
       /\ out' = Append(out, InternalErrorResponse)
       /\ Processed(t)

Next ==
  \/ ImportOk
  \/ ImportFailed
  \/ CreateShell
  \/ CreateShellFailed
  \/ EmitReady
  \/ ReadLine
  \/ EndOfInput
  \/ Interrupt
  \/ Respond
  \/ HandleJSONDecodeError
  \/ HandleException

Spec == Init /\ [][Next]_vars

\* main is a single thread: a line that has been read is processed to its
\* response (the code of a cell terminates), and readline returns '' when a
\* finite input is exhausted.  In Processing exactly one of Respond,
\* HandleJSONDecodeError and HandleException is enabled and each of them
\* leads to AwaitingLine, so weak fairness of their disjunction is weak
\* fairness of the step of main from Processing to AwaitingLine.
Answer == pc = "Processing" /\ pc' = "AwaitingLine"
FairSpec ==
  /\ Spec
  /\ WF_pc(Answer)
  /\ WF_vars(EndOfInput)


(* ---------------------------------------------------------------------- *)
(* Notions the properties are stated with                                  *)
(* ---------------------------------------------------------------------- *)
\* main() has been entered
InLoop == pc \in {"AwaitingLine", "Processing", "Terminated"}

\* the number of lines whose processing has ended with a response
Answered == IF InLoop THEN Len(out) - 1 ELSE 0

\* the response written for the k-th line
ResponseTo(k) == out[k + 1]

\* the k-th line as json.loads sees it
RequestOf(k) == Loads(Strip(inp[k]))

\* the line is rejected by json.loads
Malformed(l) == ~Loads(Strip(l)).ok

\* the line is a JSON object
IsObject(l) == Loads(Strip(l)).ok /\ Loads(Strip(l)).py = "dict"

\* the response is a result of execute_code / an error response of main
IsResult(r) == DOMAIN r = {"stdout", "stderr", "error", "outputs", "executionId", "success"}
IsErrorResponse(r, type) ==
  /\ "error" \in DOMAIN r /\ "status" \in DOMAIN r
  /\ "executionId" \notin DOMAIN r /\ "stdout" \notin DOMAIN r
  /\ r.status = "error"
  /\ r.error.type = type

(* ---------------------------------------------------------------------- *)
(* C1                                                                      *)
(* ---------------------------------------------------------------------- *)
\* C1: whenever the line being processed is rejected by json.loads (the empty
\* and the white-space-only line included) and no interrupt ends the loop,
\* the step that handles it writes exactly one line, a response with
\* error.type "ProtocolError", status "error" and no executionId key, runs
\* no cell, leaves the session unchanged and returns to AwaitingLine.
C1_MalformedLine ==
  [][ (pc = "Processing" /\ Malformed(line) /\ ~sigint') =>
        /\ Len(out') = Len(out) + 1
        /\ SubSeq(out', 1, Len(out)) = out
        /\ IsErrorResponse(out'[Len(out')], "ProtocolError")
        /\ cells' = cells
        /\ session' = session
        /\ pc' = "AwaitingLine" ]_vars

\* a malformed line was answered with a protocol error and the valid request
\* after it was executed and answered with its result
C1_Witness ==
  \E k \in 1..Answered - 1 :
    /\ Malformed(inp[k])
    /\ IsErrorResponse(ResponseTo(k), "ProtocolError")
    /\ IsObject(inp[k + 1])
    /\ IsResult(ResponseTo(k + 1))
    /\ ResponseTo(k + 1).success

(* ---------------------------------------------------------------------- *)
(* C2                                                                      *)
(* ---------------------------------------------------------------------- *)
\* C2: once main() runs, the loop is left only at end of input or by an
\* interrupt: in Terminated either readline returned '' or KeyboardInterrupt
\* was raised, and every step that answers a line, with a result, a protocol
\* error or an internal error, returns to AwaitingLine.
C2_OnlyEofOrInterrupt ==
  /\ [](pc = "Terminated" => (eof \/ sigint))
  /\ [][ (InLoop /\ Len(out') > Len(out)) => pc' = "AwaitingLine" ]_vars
  /\ [][ InLoop => pc' \in {"AwaitingLine", "Processing", "Terminated"} ]_vars

\* three requests in a row failed, one of them with an execution-time error,
\* one with an internal error, and the loop awaits the next line
C2_Witness ==
  /\ pc = "AwaitingLine"
  /\ Answered = MaxRequests
  /\ \A k \in 1..Answered :
       IsResult(ResponseTo(k)) => ~ResponseTo(k).success
  /\ \E k \in 1..Answered : IsResult(ResponseTo(k))
  /\ \E k \in 1..Answered : IsErrorResponse(ResponseTo(k), "InternalError")

(* ---------------------------------------------------------------------- *)
(* C3                                                                      *)
(* ---------------------------------------------------------------------- *)
\* C3: once the shell is constructed, the ready line is the first line of the
\* output stream, it occurs exactly once, and no line of the input stream is
\* read before it is written.
C3_ReadyFirst ==
  /\ (pc = "ready" => (out = <<>> /\ inp = <<>>))
  /\ (InLoop =>
        /\ Len(out) >= 1
        /\ out[1] = ReadyLine
        /\ \A k \in 2..Len(out) : out[k] # ReadyLine)
  /\ (inp # <<>> => (out # <<>> /\ out[1] = ReadyLine))

\* the ready line was written and requests were read and answered after it
C3_Witness ==
  /\ InLoop
  /\ out[1] = ReadyLine
  /\ Len(inp) >= 2
  /\ Answered >= 2

(* ---------------------------------------------------------------------- *)
(* C4                                                                      *)
(* ---------------------------------------------------------------------- *)
\* C4: whenever start-up fails (the import fails, or creating the shell
\* instance fails) the output stream holds exactly one line, an error line
\* that is not the ready line, no line is read and the exit status is not 0.
C4_StartupFailure ==
  pc = "Failed" =>
    /\ Len(out) = 1
    /\ "error" \in DOMAIN out[1]
    /\ out[1] # ReadyLine
    /\ inp = <<>>
    /\ exitStatus > 0

(* ---------------------------------------------------------------------- *)
(* C5                                                                      *)
(* ---------------------------------------------------------------------- *)
\* C5: in every response written for an executed request, success is true
\* exactly when error is null.
C5_SuccessIffNoError ==
  \A k \in 1..Len(out) :
    "success" \in DOMAIN out[k] => (out[k].success <=> (out[k].error = None))

\* a response with success and one with an error have been written
C5_Witness ==
  /\ \E k \in 1..Len(out) : IsResult(out[k]) /\ out[k].success /\ out[k].error = None
  /\ \E k \in 1..Len(out) : IsResult(out[k]) /\ ~out[k].success /\ out[k].error # None

(* ---------------------------------------------------------------------- *)
(* What a client expects from the lines it has sent                        *)
(* ---------------------------------------------------------------------- *)
\* the code of the k-th line, a JSON object
CodeAt(k) == CodeOf(RequestOf(k))

\* the executionId member of the k-th line, null when it has none
IdAt(k) ==
  IF "executionId" \in DOMAIN RequestOf(k).dict
  THEN RequestOf(k).dict["executionId"]
  ELSE None

RECURSIVE ExpectedCells(_)
\* the codes of the JSON objects among the first k lines
ExpectedCells(k) ==
  IF k = 0 THEN <<>>
  ELSE IF IsObject(inp[k])
       THEN Append(ExpectedCells(k - 1), CodeAt(k))
       ELSE ExpectedCells(k - 1)

RECURSIVE BindingAfter(_, _, _)
\* the binding of x after the statements of code from the n-th on, started
\* with binding b
BindingAfter(b, code, n) ==
  IF n > Len(code) THEN b
  ELSE CASE code[n].op = "assign" -> BindingAfter(code[n].arg, code, n + 1)
         [] code[n].op = "raise"  -> b
         [] code[n].op = "name" /\ b = Unbound -> b
         [] OTHER -> BindingAfter(b, code, n + 1)

RECURSIVE ExpectedBinding(_)
\* the binding of x after the first k lines
ExpectedBinding(k) ==
  IF k = 0 THEN Unbound
  ELSE IF IsObject(inp[k])
       THEN BindingAfter(ExpectedBinding(k - 1), CodeAt(k), 1)
       ELSE ExpectedBinding(k - 1)

\* the code has a raise statement / the statements executed before it
ExplicitRaise(code) == \E n \in 1..Len(code) : code[n].op = "raise"
FirstRaise(code) ==
  CHOOSE n \in 1..Len(code) :
    code[n].op = "raise" /\ \A m \in 1..(n - 1) : code[m].op # "raise"
Reached(code) ==
  IF ExplicitRaise(code) THEN SubSeq(code, 1, FirstRaise(code) - 1) ELSE code

RECURSIVE Args(_, _)
\* the arguments of the statements with the given op, in order
Args(stmts, op) ==
  IF stmts = <<>> THEN <<>>
  ELSE IF Head(stmts).op = op
       THEN <<Head(stmts).arg>> \o Args(Tail(stmts), op)
       ELSE Args(Tail(stmts), op)

\* a display payload whose application/json member json.dumps rejects
JsonFails(stmts) ==
  \E n \in 1..Len(stmts) :
    /\ stmts[n].op = "display"
    /\ "application/json" \in DOMAIN stmts[n].arg.data
    /\ stmts[n].arg.data["application/json"] \in NotJSON

\* a display payload with raw data json.dumps rejects
RawFails(stmts) ==
  \E n \in 1..Len(stmts) :
    /\ stmts[n].op = "display"
    /\ \E m \in DOMAIN stmts[n].arg.data :
         m # "application/json" /\ stmts[n].arg.data[m] \in NotJSON

\* a trailing dict or list json.dumps rejects
TrailingFails(code) ==
  /\ ~ExplicitRaise(code)
  /\ code # <<>>
  /\ code[Len(code)].op = "expr"
  /\ code[Len(code)].arg.py \in {"dict", "list"}
  /\ code[Len(code)].arg.v \in NotJSON

\* blocks that come from the figure registry
FigureOnly(blocks) ==
  \A n \in 1..Len(blocks) :
    blocks[n] = [type |-> "image", data |-> "b64:figure", metadata |-> EmptyMap]

\* outs is pre followed by figure blocks only
DisplaysThenFigures(outs, pre) ==
  /\ Len(outs) >= Len(pre)
  /\ SubSeq(outs, 1, Len(pre)) = pre
  /\ FigureOnly(SubSeq(outs, Len(pre) + 1, Len(outs)))

(* ---------------------------------------------------------------------- *)
(* C6                                                                      *)
(* ---------------------------------------------------------------------- *)
\* C6 as claimed: for every line json.loads accepts, the response carries an
\* executionId key equal to the request's executionId (null when absent).
C6_AlwaysEchoed ==
  \A k \in 1..Answered :
    ~Malformed(inp[k]) =>
      /\ "executionId" \in DOMAIN ResponseTo(k)
      /\ ResponseTo(k).executionId = IdAt(k)

\* C6 amended: the cells run are exactly the codes (empty when absent) of the
\* lines that are JSON objects, in order; the response to such a line is
\* either the result with executionId equal to the request's (null when
\* absent) or, when the result holds data json.dumps rejects, an
\* InternalError response without executionId; a line that is JSON but not
\* an object gets an InternalError response and no cell is run for it.
C6_EchoedWhenSerialized ==
  /\ InLoop => cells = ExpectedCells(Answered)
  /\ \A k \in 1..Answered :
       LET r == ResponseTo(k) IN
       /\ IsObject(inp[k]) =>
            \/ /\ IsResult(r)
               /\ r.executionId = IdAt(k)
               /\ \A n \in 1..Len(r.outputs) : r.outputs[n].data \notin NotJSON
            \/ /\ IsErrorResponse(r, "InternalError")
               /\ RawFails(CodeAt(k))
       /\ (~Malformed(inp[k]) /\ ~IsObject(inp[k])) =>
            IsErrorResponse(r, "InternalError")

\* requests with and without executionId were answered with it echoed, and a
\* request whose result does not serialize got an InternalError response
C6_Witness ==
  /\ \E k \in 1..Answered :
       IsObject(inp[k]) /\ IdAt(k) = Id1 /\ CodeAt(k) # <<>>
       /\ IsResult(ResponseTo(k)) /\ ResponseTo(k).executionId = Id1
  /\ \E k \in 1..Answered :
       IsObject(inp[k]) /\ IdAt(k) = None
       /\ IsResult(ResponseTo(k)) /\ ResponseTo(k).executionId = None
  /\ \E k \in 1..Answered :
       IsObject(inp[k]) /\ IdAt(k) = Id1
       /\ IsErrorResponse(ResponseTo(k), "InternalError")

(* ---------------------------------------------------------------------- *)
(* C7                                                                      *)
(* ---------------------------------------------------------------------- *)
\* C7: the session is never recreated or reset: the binding of x is the one
\* left by the statements of all requests executed so far, whatever the
\* responses in between were, and a request whose code is the expression x,
\* sent while x is bound, is answered with a text block holding that value.
C7_BindingsPersist ==
  /\ InLoop => ns = ExpectedBinding(Answered)
  /\ \A k \in 1..Answered :
       (IsObject(inp[k]) /\ CodeAt(k) = <<ExprX>> /\ ExpectedBinding(k - 1) # Unbound) =>
         LET r == ResponseTo(k) IN
         /\ IsResult(r)
         /\ r.success
         /\ r.outputs # <<>>
         /\ r.outputs[Len(r.outputs)].type = "text"
         /\ r.outputs[Len(r.outputs)].data = ExpectedBinding(k - 1).v

\* x was bound, a later request failed, and a request after that read x
C7_Witness ==
  \E i, j, k \in 1..Answered :
    /\ i < j /\ j < k
    /\ IsObject(inp[i]) /\ CodeAt(i) = << Assign(IntValue("1")) >>
    /\ (~IsResult(ResponseTo(j)) \/ ~ResponseTo(j).success)
    /\ IsObject(inp[k]) /\ CodeAt(k) = <<ExprX>>
    /\ ResponseTo(k).outputs[Len(ResponseTo(k).outputs)].data = "1"

(* ---------------------------------------------------------------------- *)
(* C8                                                                      *)
(* ---------------------------------------------------------------------- *)
\* code without output-producing statement and without trailing expression
Quiet(code) == \A n \in 1..Len(code) : code[n].op = "assign"

\* C8: after any sequence of earlier requests, a request whose code has no
\* output-producing statement and no trailing expression (the empty code
\* included) is answered with stdout "", stderr "", outputs [] and success.
C8_QuietRequest ==
  \A k \in 1..Answered :
    (IsObject(inp[k]) /\ Quiet(CodeAt(k))) =>
      LET r == ResponseTo(k) IN
      /\ IsResult(r)
      /\ r.stdout = <<>>
      /\ r.stderr = <<>>
      /\ r.outputs = <<>>
      /\ r.success

(* ---------------------------------------------------------------------- *)
(* C9                                                                      *)
(* ---------------------------------------------------------------------- *)
\* what C9 says of the response r to a request whose code raises
RaiseReported(r, code) ==
  /\ IsResult(r)
  /\ ~r.success
  /\ r.error.type = code[FirstRaise(code)].arg
  /\ r.stdout = Args(Reached(code), "print")
  /\ r.stderr = Args(Reached(code), "eprint")
  /\ DisplaysThenFigures(r.outputs,
       ProcessDisplays(<<>>, Args(Reached(code), "display"), 1).outputs)
  /\ \A n \in 1..Len(Args(Reached(code), "display")) :
       LET p == Args(Reached(code), "display")[n] IN
       \A m \in 1..Len(Vocabulary) :
         Vocabulary[m].mime \in DOMAIN p.data =>
           \E b \in 1..Len(r.outputs) : r.outputs[b].type = Vocabulary[m].tag

FailsInExecuteCode(code) == JsonFails(Reached(code)) \/ TrailingFails(code)

\* the response carries no stdout, stderr or output block
Discarded(r) ==
  \/ "stdout" \notin DOMAIN r /\ "stderr" \notin DOMAIN r /\ "outputs" \notin DOMAIN r
  \/ IsResult(r) /\ r.stdout = <<>> /\ r.stderr = <<>> /\ r.outputs = <<>>

ExecutionTimeError(k) ==
  /\ IsObject(inp[k])
  /\ ExplicitRaise(CodeAt(k))
  /\ ~FailsInExecuteCode(CodeAt(k))
  /\ ~RawFails(Reached(CodeAt(k)))

\* the capture/format machinery failed in the k-th request, whose code did
\* not raise
MachineryError(k) ==
  /\ IsObject(inp[k])
  /\ ~ExplicitRaise(CodeAt(k))
  /\ (FailsInExecuteCode(CodeAt(k)) \/ RawFails(CodeAt(k)))

\* C11: the error type of a response tells the class of the failure: the
\* type written for a failure of the capture/format machinery is never a
\* type written for an execution-time error of user code, and neither of
\* them is "ProtocolError".
C11_TypesTellClasses ==
  \A j, k \in 1..Answered :
    (ExecutionTimeError(j) /\ MachineryError(k)) =>
      /\ ResponseTo(j).error.type # ResponseTo(k).error.type
      /\ ResponseTo(j).error.type # "ProtocolError"
      /\ ResponseTo(k).error.type # "ProtocolError"

(* ---------------------------------------------------------------------- *)
(* C12                                                                     *)
(* ---------------------------------------------------------------------- *)
\* the code ends, without raising, in an expression whose value is rendered
\* on demand (not a dict or list), and no json.dumps fails on the way
TrailingRendered(code) ==
  /\ code # <<>>
  /\ ~ExplicitRaise(code)
  /\ code[Len(code)].op = "expr"
  /\ code[Len(code)].arg.py \notin {"dict", "list"}
  /\ ~JsonFails(code)
  /\ ~RawFails(code)

\* the number of blocks of the given type
RECURSIVE CountType(_, _)
CountType(blocks, tag) ==
  IF blocks = <<>> THEN 0
  ELSE (IF Head(blocks).type = tag THEN 1 ELSE 0) + CountType(Tail(blocks), tag)

\* the kinds whose block, added for a value, withholds its text block
Withholding ==
  {"image/png", "image/jpeg", "image/svg+xml", "application/json",
   "text/latex", "text/markdown", "application/javascript"}

\* the text rule of C12 for a rendering with the given kinds
TextExpected(kinds) ==
  /\ "text/plain" \in kinds
  /\ (kinds \cap Withholding = {} \/ "text/html" \in kinds)

\* C12: for a trailing value rendered on demand, in a request with any
\* display payloads, a text block is emitted for the value exactly when its
\* rendering has text/plain and either no image, jpeg, svg, json, latex,
\* markdown or javascript block was added for it or an html block was added
\* for it: the text blocks of the response are those of the display payloads
\* plus that one, and with html and plain the html block comes before the
\* text block.
C12_TrailingText ==
  \A k \in 1..Answered :
    (IsObject(inp[k]) /\ TrailingRendered(CodeAt(k))) =>
      LET r     == ResponseTo(k)
          code  == CodeAt(k)
          kinds == DOMAIN code[Len(code)].arg.formats
          shown == ProcessDisplays(<<>>, Args(code, "display"), 1).outputs
      IN  /\ IsResult(r)
          /\ CountType(r.outputs, "text") =
               CountType(shown, "text") + (IF TextExpected(kinds) THEN 1 ELSE 0)
          /\ {"text/html", "text/plain"} \subseteq kinds =>
               /\ r.outputs[Len(r.outputs)].type = "text"
               /\ CountType(r.outputs, "html") = CountType(shown, "html") + 1

(* ---------------------------------------------------------------------- *)
(* C13                                                                     *)
(* ---------------------------------------------------------------------- *)
\* the code ends, without raising, in an expression whose value is a dict
\* or a list, and no json.dumps of a display payload fails on the way
TrailingDictOrList(code) ==
  /\ code # <<>>
  /\ ~ExplicitRaise(code)
  /\ code[Len(code)].op = "expr"
  /\ code[Len(code)].arg.py \in {"dict", "list"}
  /\ ~JsonFails(code)
  /\ ~RawFails(code)

\* what json.loads makes of the data of a json block on the client's side:
\* the keys of a JSON object are strings
LoadsText(text) ==
  CASE text = "{\"a\": 1}" -> "dict:a=1"
    [] text = "{\"1\": 2}" -> "dict:\"1\"=2"
    [] text = "[1, 2]"     -> "list:1,2"
    [] OTHER               -> "<undecodable>"

\* the blocks that do not come from the figure registry
RECURSIVE Selected(_)
Selected(blocks) ==
  IF blocks = <<>> THEN <<>>
  ELSE IF FigureOnly(<<Head(blocks)>>)
       THEN Selected(Tail(blocks))
       ELSE <<Head(blocks)>> \o Selected(Tail(blocks))

\* apart from figures, outs is the blocks of the display payloads of code
\* followed by one json block with empty metadata
OneJsonBlock(outs, code) ==
  /\ outs # <<>>
  /\ outs[Len(outs)].type = "json"
  /\ outs[Len(outs)].metadata = EmptyMap
  /\ Selected(outs) =
       Append(ProcessDisplays(<<>>, Args(code, "display"), 1).outputs, outs[Len(outs)])

\* C13 as claimed: when the trailing value is a dict or a list, exactly one
\* block is appended for it, of type json, with empty metadata and data that
\* deserializes back to the value, and no html, text or other block.
C13_DictOrListJson ==
  \A k \in 1..Answered :
    (IsObject(inp[k]) /\ TrailingDictOrList(CodeAt(k))) =>
      LET r == ResponseTo(k)
          code == CodeAt(k)
      IN  /\ IsResult(r)
          /\ OneJsonBlock(r.outputs, code)
          /\ LoadsText(r.outputs[Len(r.outputs)].data) = code[Len(code)].arg.v

\* C13 amended: when the trailing value is a dict or a list that json.dumps
\* accepts, exactly one block is appended for it, of type json, with empty
\* metadata and no html, text or other block; its data deserializes back to
\* the value when the keys of the value are strings, and to the value with
\* the key turned into a string when a key is an integer.  When json.dumps
\* rejects the value, no block is appended for it and the response reports
\* the TypeError with success false.
C13_JsonWhenSerializable ==
  \A k \in 1..Answered :
    (IsObject(inp[k]) /\ TrailingDictOrList(CodeAt(k))) =>
      LET r == ResponseTo(k)
          code == CodeAt(k)
          v == code[Len(code)].arg.v
      IN  /\ IsResult(r)
          /\ v \notin NotJSON =>
               /\ r.success
               /\ OneJsonBlock(r.outputs, code)
               /\ v = "dict:a=1" => LoadsText(r.outputs[Len(r.outputs)].data) = v
               /\ v = "dict:1=2" =>
                    LoadsText(r.outputs[Len(r.outputs)].data) = "dict:\"1\"=2"
          /\ v \in NotJSON =>
               /\ ~r.success
               /\ r.error.type = "TypeError"
               /\ Selected(r.outputs) =
                    ProcessDisplays(<<>>, Args(code, "display"), 1).outputs

\* a dict with string keys came back from its single json block, a dict with
\* an integer key came back with a string key, and a dict json.dumps rejects
\* was answered with the display block only and an error
C13_Witness ==
  /\ \E k \in 1..Answered :
       /\ IsObject(inp[k]) /\ CodeAt(k) = << Expr(DictGood) >>
       /\ Len(ResponseTo(k).outputs) >= 1
       /\ Selected(ResponseTo(k).outputs) =
            << [type |-> "json", data |-> "{\"a\": 1}", metadata |-> EmptyMap] >>
  /\ \E k \in 1..Answered :
       /\ IsObject(inp[k]) /\ TrailingDictOrList(CodeAt(k))
       /\ CodeAt(k)[Len(CodeAt(k))].arg = DictIntKey
       /\ ResponseTo(k).outputs[Len(ResponseTo(k).outputs)].data = "{\"1\": 2}"
  /\ \E k \in 1..Answered :
       /\ IsObject(inp[k]) /\ TrailingDictOrList(CodeAt(k))
       /\ CodeAt(k)[Len(CodeAt(k))].arg = DictBad
       /\ ResponseTo(k).error.type = "TypeError"
       /\ Selected(ResponseTo(k).outputs) # <<>>

(* ---------------------------------------------------------------------- *)
(* C14                                                                     *)
(* ---------------------------------------------------------------------- *)
\* the block types of the protocol, in the order C14 gives them, and the
\* kind each stands for
Order ==
  << "image", "jpeg", "svg", "html", "json", "latex", "markdown",
     "javascript", "text" >>
Rank(tag) == CHOOSE n \in 1..Len(Order) : Order[n] = tag
KindOf(tag) ==
  CASE tag = "image"      -> "image/png"
    [] tag = "jpeg"       -> "image/jpeg"
    [] tag = "svg"        -> "image/svg+xml"
    [] tag = "html"       -> "text/html"
    [] tag = "json"       -> "application/json"
    [] tag = "latex"      -> "text/latex"
    [] tag = "markdown"   -> "text/markdown"
    [] tag = "javascript" -> "application/javascript"
    [] tag = "text"       -> "text/plain"

\* the kinds offered by a statement that is a source of blocks: a display
\* payload, or the trailing value (a dict or list offers JSON only)
KindsOffered(stmt) ==
  CASE stmt.op = "display" -> DOMAIN stmt.arg.data
    [] stmt.op = "expr" /\ stmt.arg.py \in {"dict", "list"} -> {"application/json"}
    [] stmt.op = "expr"    -> DOMAIN stmt.arg.formats
    [] stmt.op = "name"    -> {"text/plain"}
    [] OTHER               -> {}

\* the statements of code that are sources of blocks
IsSource(code, n) ==
  \/ code[n].op = "display"
  \/ n = Len(code) /\ code[n].op \in {"expr", "name"}
Sources(code) == {n \in 1..Len(code) : IsSource(code, n)}

\* the places where a block does not come later in Order than the one before
Descents(blocks) ==
  {n \in 1..(Len(blocks) - 1) : Rank(blocks[n + 1].type) <= Rank(blocks[n].type)}

\* the blocks a single source has produced: in Order, one per kind at most,
\* of kinds the source offers
InOrder(blocks, kinds) ==
  /\ Descents(blocks) = {}
  /\ \A n \in 1..Len(blocks) : KindOf(blocks[n].type) \in kinds

\* C14: every block type of every response belongs to the vocabulary; the
\* blocks of one display payload or of one rendered value come in the order
\* image, jpeg, svg, html, json, latex, markdown, javascript, text with at
\* most one block per kind, so the blocks of a response that do not come
\* from figures form at most as many ascending runs as the request has
\* payloads and trailing value; and a kind outside the vocabulary never
\* produces a block: every block is of a kind some payload or the value
\* offers.
C14_FixedOrder ==
  [][ (/\ pc = "Processing"
       /\ IsObject(line)
       /\ Len(out') = Len(out) + 1
       /\ IsResult(out'[Len(out')])) =>
        LET r     == out'[Len(out')]
            code  == Reached(CodeOf(Loads(Strip(line))))
            blocks == Selected(r.outputs)
        IN  /\ \A n \in 1..Len(r.outputs) :
                 \E m \in 1..Len(Order) : r.outputs[n].type = Order[m]
            /\ Cardinality(Descents(blocks)) < Cardinality(Sources(code)) \/ blocks = <<>>
            /\ \A n \in 1..Len(blocks) :
                 \E m \in Sources(code) : KindOf(blocks[n].type) \in KindsOffered(code[m])
            /\ Cardinality(Sources(code)) = 1 =>
                 \E m \in Sources(code) : InOrder(blocks, KindsOffered(code[m])) ]_vars

\* a value offering every kind was answered with the nine blocks in order,
\* and a payload offering every kind and an unknown one with the eight
\* blocks before text, none of them for the unknown kind
C14_Witness ==
  /\ \E k \in 1..Answered :
       /\ IsObject(inp[k]) /\ CodeAt(k) = << Expr(RichAll) >>
       /\ IsResult(ResponseTo(k))
       /\ [n \in 1..9 |-> Selected(ResponseTo(k).outputs)[n].type] = Order
  /\ \E k \in 1..Answered :
       /\ IsObject(inp[k])
       /\ CodeAt(k) # <<>> /\ CodeAt(k)[1] = Display(AllKinds, PngMeta)
       /\ IsResult(ResponseTo(k))
       /\ Len(Selected(ResponseTo(k).outputs)) = 9
       /\ [n \in 1..8 |-> Selected(ResponseTo(k).outputs)[n].type] = SubSeq(Order, 1, 8)
       /\ \A n \in 1..Len(ResponseTo(k).outputs) : ResponseTo(k).outputs[n].data # "pdf"

(* ---------------------------------------------------------------------- *)
(* C15                                                                     *)
(* ---------------------------------------------------------------------- *)
\* C15 as claimed: the image blocks of the figure registry come after every
\* display payload block and every trailing-expression block of the
\* response: no other block follows a figure block.
C15_FiguresLast ==
  \A k \in 1..Answered :
    (IsObject(inp[k]) /\ IsResult(ResponseTo(k))) =>
      LET outs == ResponseTo(k).outputs IN
      \A m, n \in 1..Len(outs) :
        (m < n /\ FigureOnly(<<outs[m]>>)) => FigureOnly(<<outs[n]>>)

\* the number of figures at the head of the registry that savefig accepts
RECURSIVE LeadingOk(_)
LeadingOk(registry) ==
  IF registry = <<>> \/ Head(registry) = "bad" THEN 0
  ELSE 1 + LeadingOk(Tail(registry))

\* the code ends, without raising, in an expression
HasTrailing(code) ==
  /\ code # <<>>
  /\ ~ExplicitRaise(code)
  /\ code[Len(code)].op \in {"expr", "name"}

\* C15 amended: in the response to a request whose display payloads are
\* processed without failure, the blocks of the display payloads come
\* first, then one image block for each figure of the registry that could
\* be encoded (when the plotting module is loaded), then the blocks of the
\* trailing-expression value: the figure blocks follow every display block
\* and come before every trailing-expression block.
C15_FiguresBeforeValue ==
  [][ (/\ pc = "Processing"
       /\ IsObject(line)
       /\ Len(out') = Len(out) + 1
       /\ IsResult(out'[Len(out')])
       /\ ~JsonFails(Reached(CodeOf(Loads(Strip(line)))))) =>
        LET outs  == out'[Len(out')].outputs
            code  == CodeOf(Loads(Strip(line)))
            shown == ProcessDisplays(<<>>, Args(Reached(code), "display"), 1).outputs
            drawn == Args(Reached(code), "figure")
            n     == Len(shown)
            f     == IF pyplot \/ drawn # <<>> THEN LeadingOk(figs \o drawn) ELSE 0
        IN  /\ Len(outs) >= n + f
            /\ SubSeq(outs, 1, n) = shown
            /\ FigureOnly(SubSeq(outs, n + 1, n + f))
            /\ \A m \in (n + f + 1)..Len(outs) :
                 /\ ~FigureOnly(<<outs[m]>>)
                 /\ HasTrailing(code)
                 /\ KindOf(outs[m].type) \in KindsOffered(code[Len(code)]) ]_vars

\* a request displayed html, drew a figure and ended in an image value: the
\* figure block stands between the html block and the blocks of the value
C15_Witness ==
  \E k \in 1..Answered :
    /\ IsObject(inp[k])
    /\ CodeAt(k) = << Display(HtmlPlain, EmptyMap), Figure("ok"), Expr(RichPng) >>
    /\ IsResult(ResponseTo(k))
    /\ Len(ResponseTo(k).outputs) >= 3
    /\ ResponseTo(k).outputs[1].type = "html"
    /\ FigureOnly(<<ResponseTo(k).outputs[2]>>)
    /\ ResponseTo(k).outputs[3].type = "image"
    /\ ResponseTo(k).outputs[3].data = "b64"

(* ---------------------------------------------------------------------- *)
(* C16                                                                     *)
(* ---------------------------------------------------------------------- *)
\* the number of blocks that come from the figure registry
FigureCount(blocks) == Len(blocks) - Len(Selected(blocks))

\* C16: every executed request drains the figure registry whatever its
\* outcome: once the response to a line that is a JSON object is written
\* the registry is empty, and the response to a request holds no more
\* figure blocks than the request has drawn figures.
C16_RegistryDrained ==
  /\ (pc = "AwaitingLine" /\ Answered >= 1 /\ IsObject(inp[Answered])) => figs = <<>>
  /\ \A k \in 1..Answered :
       (IsObject(inp[k]) /\ IsResult(ResponseTo(k))) =>
         FigureCount(ResponseTo(k).outputs) <= Len(Args(Reached(CodeAt(k)), "figure"))

(* ---------------------------------------------------------------------- *)
(* C17                                                                     *)
(* ---------------------------------------------------------------------- *)
\* the kinds the protocol recognizes
Recognized == Withholding \cup {"text/html", "text/plain"}

\* plain text is the only recognized kind of the payload
PlainIsOnlyRecognized(payload) == DOMAIN payload.data \cap Recognized = {"text/plain"}

\* the number of payloads with plain text as only recognized kind
RECURSIVE PlainPayloads(_)
PlainPayloads(payloads) ==
  IF payloads = <<>> THEN 0
  ELSE (IF PlainIsOnlyRecognized(Head(payloads)) THEN 1 ELSE 0)
       + PlainPayloads(Tail(payloads))

\* no text block can come from a trailing value of the code
NoTextFromValue(code) ==
  \/ ~HasTrailing(code)
  \/ code[Len(code)].op = "expr" /\ code[Len(code)].arg.py \in {"dict", "list"}

\* C17: a display payload yields a text block exactly when plain text is its
\* only recognized kind: in a response whose text blocks can only come from
\* display payloads, there are as many text blocks as the request has
\* displayed payloads whose only recognized kind is plain text.
C17_TextIffOnlyRecognized ==
  \A k \in 1..Answered :
    (/\ IsObject(inp[k])
     /\ NoTextFromValue(CodeAt(k))
     /\ ~JsonFails(Reached(CodeAt(k)))
     /\ ~RawFails(Reached(CodeAt(k)))) =>
      /\ IsResult(ResponseTo(k))
      /\ CountType(ResponseTo(k).outputs, "text") =
           PlainPayloads(Args(Reached(CodeAt(k)), "display"))

(* ---------------------------------------------------------------------- *)
(* C18                                                                     *)
(* ---------------------------------------------------------------------- *)
\* what the registry looks like after a drain was attempted: empty, or
\* holding a figure savefig rejects; nothing to drain without pyplot
DrainAttempted(loaded, registry) ==
  \/ ~loaded
  \/ registry = <<>>
  \/ \E n \in 1..Len(registry) : registry[n] = "bad"

\* C18: in every response the blocks of the display payloads come first, in
\* the order of the display calls, before every figure block and every
\* trailing-expression block; and the figure drain is attempted on every
\* executed request, whether or not the user code raised.
C18_DisplaysFirstDrainAlways ==
  [][ (/\ pc = "Processing"
       /\ IsObject(line)
       /\ Len(out') = Len(out) + 1) =>
        LET r     == out'[Len(out')]
            code  == CodeOf(Loads(Strip(line)))
            shown == ProcessDisplays(<<>>, Args(Reached(code), "display"), 1).outputs
        IN  /\ IsResult(r) =>
                 /\ Len(r.outputs) >= Len(shown)
                 /\ SubSeq(r.outputs, 1, Len(shown)) = shown
            /\ DrainAttempted(pyplot', figs') ]_vars

(* ---------------------------------------------------------------------- *)
(* C19                                                                     *)
(* ---------------------------------------------------------------------- *)
\* the response answers the line: a protocol error for a malformed line, the
\* result with the line's executionId or an internal error for a JSON
\* object, an internal error for any other JSON value
Answers(r, l) ==
  /\ Malformed(l) => IsErrorResponse(r, "ProtocolError")
  /\ IsObject(l) =>
       \/ /\ IsResult(r)
          /\ r.executionId = EchoId(Loads(Strip(l)))
       \/ IsErrorResponse(r, "InternalError")
  /\ (~Malformed(l) /\ ~IsObject(l)) => IsErrorResponse(r, "InternalError")

\* C19: processing is strictly sequential: the lines read are at most one
\* ahead of the responses written, and exactly one ahead while a request is
\* in Processing; a line is read only when every line before it has been
\* answered; and unless an interrupt ends the loop, the step that leaves
\* Processing writes exactly one line, the response to the line read last,
\* so that the k-th response after the ready line answers the k-th line.
C19_StrictlySequential ==
  /\ [](InLoop =>
          /\ pc = "AwaitingLine" => Len(inp) = Answered
          /\ pc = "Processing" => (Len(inp) = Answered + 1 /\ line = inp[Len(inp)])
          /\ Len(inp) - Answered \in {0, 1}
          /\ \A k \in 1..Answered : Answers(ResponseTo(k), inp[k]))
  /\ [][ Len(inp') > Len(inp) =>
           /\ pc = "AwaitingLine" /\ pc' = "Processing"
           /\ Len(inp) = Answered
           /\ Len(inp') = Len(inp) + 1
           /\ out' = out ]_vars
  /\ [][ (pc = "Processing" /\ ~sigint') =>
           /\ Len(out') = Len(out) + 1
           /\ SubSeq(out', 1, Len(out)) = out
           /\ Answers(out'[Len(out')], line)
           /\ inp' = inp
           /\ pc' = "AwaitingLine" ]_vars

\* three lines of three kinds were read and answered one after the other
C19_Witness ==
  /\ pc = "AwaitingLine"
  /\ Answered = 3
  /\ Len(inp) = 3
  /\ Malformed(inp[1]) /\ IsErrorResponse(ResponseTo(1), "ProtocolError")
  /\ IsObject(inp[2]) /\ IsResult(ResponseTo(2)) /\ ResponseTo(2).executionId = Id1
  /\ ~Malformed(inp[3]) /\ ~IsObject(inp[3])
  /\ IsErrorResponse(ResponseTo(3), "InternalError")

(* ---------------------------------------------------------------------- *)
(* C20                                                                     *)
(* ---------------------------------------------------------------------- *)
\* C20 as claimed: every line received leads back to AwaitingLine with its
\* response written; the loop reaches Terminated once the input has ended;
\* the loop never stays in Processing forever.
C20_AlwaysBack ==
  /\ pc = "Processing" ~> (pc = "AwaitingLine" /\ Answered = Len(inp))
  /\ InLoop ~> (pc = "Terminated")
  /\ []<>(pc # "Processing")

\* C20 amended: every line received leads back to AwaitingLine with its
\* response written unless an interrupt ends the loop first; the loop
\* reaches Terminated once the input has ended; the loop never stays in
\* Processing forever.
C20_BackUnlessInterrupted ==
  /\ pc = "Processing" ~>
       ((pc = "AwaitingLine" /\ Answered = Len(inp)) \/ (pc = "Terminated" /\ sigint))
  /\ InLoop ~> (pc = "Terminated")
  /\ []<>(pc # "Processing")

\* the input ended after every line was answered and the loop has terminated
C20_Witness ==
  /\ pc = "Terminated"
  /\ eof
  /\ ~sigint
  /\ Len(inp) = MaxRequests
  /\ Answered = MaxRequests

====
